---- MODULE Spec2Model ----
(***************************************************************************)
(* RAGFile container (schema v0.1.0): the writer and reader of             *)
(* src/ragfile/ragfile_utils.py and the benchmark pipeline of              *)
(* src/ragfile/keyword_bench.py.                                           *)
(*                                                                         *)
(* Bytes are the integers 0..255, a bytes/bytearray value is a sequence of *)
(* bytes, a str is a sequence of Unicode code points.  Python offsets are  *)
(* 0-based and half open; buf[a:b] is SubSeq(buf, a + 1, b).               *)
(***************************************************************************)
EXTENDS Integers, Sequences, FiniteSets, TLC

(***************************************************************************)
(* Bounds of the model.                                                    *)
(***************************************************************************)
\* writer API calls per run of the free-order specification
MaxCalls == 4
\* writer API calls per run of the writer-only specification
MaxWriterCalls == 2
\* keyword-content pairs per write_keyword_section call
MaxPairs == 1
\* section-writing calls per run of the free-order specification
MaxSections == 2
\* embedding-content pairs per write_embedding_section call
MaxEmbPairs == 1
\* --num_keywords of the benchmark
MaxNumKeywords == 2
\* --str_length of the benchmark; random_string ranges over every string of
\* the alphabet up to this length, and over the one-letter strings beyond it
MaxStrLength == 2
\* the long --content_length of the benchmark
LongContent == 600

(***************************************************************************)
(* Program constants.                                                      *)
(***************************************************************************)
\* block = mm[pos: pos + padding * 256]
WindowRecords == 256
\* RAGFileReader._header_end
ReaderHeaderEnd == 11

NUL == 0
DASH == 45

\* b"RAGFILE"
MAGIC == <<82, 65, 71, 70, 73, 76, 69>>
\* "keyword"
KEYWORD == <<107, 101, 121, 119, 111, 114, 100>>
\* "vector"
VECTOR == <<118, 101, 99, 116, 111, 114>>

Range(f) == {f[i] : i \in DOMAIN f}

Min(S) == CHOOSE x \in S : \A y \in S : x <= y

\* the elements of a finite set of integers in ascending order
SortedSeq(S) ==
    [k \in 1..Cardinality(S) |->
        CHOOSE z \in S : Cardinality({y \in S : y < z}) = k - 1]

RECURSIVE Concat(_)
\* b"".join(seqs)
Concat(seqs) ==
    IF seqs = <<>> THEN <<>> ELSE Head(seqs) \o Concat(Tail(seqs))

Zeros(n) == [i \in 1..n |-> NUL]

(***************************************************************************)
(* str.encode("utf-8") and bytes.decode("utf-8")                           *)
(***************************************************************************)
Utf8EncodeChar(c) ==
    IF c < 128 THEN <<c>>
    ELSE IF c < 2048 THEN <<192 + (c \div 64), 128 + (c % 64)>>
    ELSE IF c < 65536
         THEN <<224 + (c \div 4096), 128 + ((c \div 64) % 64), 128 + (c % 64)>>
         ELSE <<240 + (c \div 262144), 128 + ((c \div 4096) % 64),
                128 + ((c \div 64) % 64), 128 + (c % 64)>>

Utf8Encode(s) ==
    IF \A i \in DOMAIN s : s[i] < 128
    THEN s
    ELSE Concat([i \in DOMAIN s |-> Utf8EncodeChar(s[i])])

IsCont(b, i) == i <= Len(b) /\ b[i] >= 128 /\ b[i] <= 191

\* the number of bytes of the well-formed UTF-8 sequence starting at b[i],
\* 0 when there is none (Python's strict decoder raises UnicodeDecodeError)
Utf8SeqLen(b, i) ==
    LET c == b[i] IN
    IF c < 128 THEN 1
    ELSE IF c >= 194 /\ c <= 223
         THEN IF IsCont(b, i + 1) THEN 2 ELSE 0
    ELSE IF c >= 224 /\ c <= 239
         THEN IF /\ IsCont(b, i + 1) /\ IsCont(b, i + 2)
                 /\ (c = 224 => b[i + 1] >= 160)
                 /\ (c = 237 => b[i + 1] <= 159)
              THEN 3 ELSE 0
    ELSE IF c >= 240 /\ c <= 244
         THEN IF /\ IsCont(b, i + 1) /\ IsCont(b, i + 2) /\ IsCont(b, i + 3)
                 /\ (c = 240 => b[i + 1] >= 144)
                 /\ (c = 244 => b[i + 1] <= 143)
              THEN 4 ELSE 0
    ELSE 0

Utf8CodePoint(b, i, n) ==
    IF n = 1 THEN b[i]
    ELSE IF n = 2 THEN (b[i] - 192) * 64 + (b[i + 1] - 128)
    ELSE IF n = 3
         THEN (b[i] - 224) * 4096 + (b[i + 1] - 128) * 64 + (b[i + 2] - 128)
         ELSE (b[i] - 240) * 262144 + (b[i + 1] - 128) * 4096
              + (b[i + 2] - 128) * 64 + (b[i + 3] - 128)

RECURSIVE Utf8DecodeFrom(_, _)
Utf8DecodeFrom(b, i) ==
    IF i > Len(b) THEN [ok |-> TRUE, str |-> <<>>]
    ELSE LET n == Utf8SeqLen(b, i) IN
         IF n = 0 THEN [ok |-> FALSE, str |-> <<>>]
         ELSE LET rest == Utf8DecodeFrom(b, i + n) IN
              [ok |-> rest.ok,
               str |-> IF rest.ok THEN <<Utf8CodePoint(b, i, n)>> \o rest.str
                       ELSE <<>>]

\* [ok |-> FALSE] stands for UnicodeDecodeError
Utf8Decode(b) ==
    IF \A i \in DOMAIN b : b[i] < 128
    THEN [ok |-> TRUE, str |-> b]
    ELSE Utf8DecodeFrom(b, 1)

(***************************************************************************)
(* str(int) inside the f-string and int(str)                               *)
(***************************************************************************)
RECURSIVE IntToStr(_)
IntToStr(n) ==
    IF n < 10 THEN <<48 + n>> ELSE IntToStr(n \div 10) \o <<48 + (n % 10)>>

IsDigits(s) == s # <<>> /\ \A i \in DOMAIN s : s[i] >= 48 /\ s[i] <= 57

RECURSIVE DigitsValue(_)
DigitsValue(s) ==
    IF s = <<>> THEN 0
    ELSE 10 * DigitsValue(SubSeq(s, 1, Len(s) - 1)) + (s[Len(s)] - 48)

(***************************************************************************)
(* RAGFileWriter                                                           *)
(***************************************************************************)
u8(v) == <<v>>

RECURSIVE ByteAt(_, _)
\* byte k (0 = least significant) of the unsigned integer v
ByteAt(v, k) == IF k = 0 THEN v % 256 ELSE ByteAt(v \div 256, k - 1)

\* struct.pack(struct_prefix + "Q", v): "<" when endian_flag = 0, ">" otherwise
u64(ef, v) ==
    IF ef = 0
    THEN [i \in 1..8 |-> ByteAt(v, i - 1)]
    ELSE [i \in 1..8 |-> ByteAt(v, 8 - i)]

pad_len_off(data, alignment) == alignment - (Len(data) % alignment)

pad_len(data, alignment) == (alignment - (Len(data) % alignment)) % alignment

pad(data, alignment) == data \o Zeros(pad_len(data, alignment))

\* buf[a:b] = bytes, for len(bytes) = b - a and b <= len(buf)
Patch(b, a, bytes) ==
    [i \in 1..Len(b) |->
        IF a < i /\ i <= a + Len(bytes) THEN bytes[i - a] ELSE b[i]]

write_header(b, ef, major, minor, patch) ==
    b \o MAGIC \o <<major, minor, patch>> \o <<ef>>

IndexEntryText(e) ==
    Utf8Encode(e[1] \o <<DASH, 40>> \o IntToStr(e[2]) \o <<44>>
               \o IntToStr(e[3]) \o <<41>>)

IndexTable(ie) == Concat([i \in DOMAIN ie |-> IndexEntryText(ie[i]) \o <<NUL>>])

write_index_strategy(b, ie) ==
    LET table == IndexTable(ie)
        header_end == Len(MAGIC) + 3 + 1
        ext == IF Len(b) < header_end + Len(table)
               THEN b \o Zeros(header_end + Len(table) - Len(b))
               ELSE b
    IN Patch(ext, header_end, table)

ValidPadding(padding) == padding \in {4, 8, 16}

ValidPrecision(precision) == precision \in {16, 32}

KeywordRecord(pair) == Utf8Encode(pair.keyword \o <<DASH>> \o pair.content)

KeywordRecords(pairs) == [i \in DOMAIN pairs |-> KeywordRecord(pairs[i])]

PaddedRecords(recs, padding) == [i \in DOMAIN recs |-> pad(recs[i], padding)]

\* the statements of write_keyword_section after its assert
KeywordSectionBody(b, ie, ef, pairs, padding) ==
    LET start == Len(b)
        meta == b \o u64(ef, 0) \o u64(ef, 0) \o u8(padding)
        data_start == Len(meta)
        body == meta \o Concat(PaddedRecords(KeywordRecords(pairs), padding))
        data_end == Len(body)
        patched == Patch(Patch(body, start, u64(ef, data_start)),
                         start + 8, u64(ef, data_end))
    IN [raised |-> FALSE, buf |-> patched,
        index_entries |-> Append(ie, <<KEYWORD, data_start, data_end>>)]

\* the assert placed after the placeholders are appended
write_keyword_section_late(b, ie, ef, pairs, padding) ==
    IF ~ValidPadding(padding)
    THEN [raised |-> TRUE, buf |-> b \o u64(ef, 0) \o u64(ef, 0),
          index_entries |-> ie]
    ELSE KeywordSectionBody(b, ie, ef, pairs, padding)

\* [raised |-> TRUE] stands for the AssertionError of line 93
write_keyword_section(b, ie, ef, pairs, padding) ==
    IF ~ValidPadding(padding)
    THEN [raised |-> TRUE, buf |-> b, index_entries |-> ie]
    ELSE KeywordSectionBody(b, ie, ef, pairs, padding)

\* IEEE-754 bit patterns of the modelled vector components 1.0, 2.0, 3.0
FloatBits(v, precision) ==
    IF precision = 16
    THEN CASE v = 1 -> 15360 [] v = 2 -> 16384 [] v = 3 -> 16896
    ELSE CASE v = 1 -> 1065353216 [] v = 2 -> 1073741824 [] v = 3 -> 1077936128

\* one component of emb.astype(...).tobytes(), in the host's byte order
FloatBytes(ef, v, precision) ==
    LET w == precision \div 8
        bits == FloatBits(v, precision)
    IN IF ef = 0
       THEN [i \in 1..w |-> ByteAt(bits, i - 1)]
       ELSE [i \in 1..w |-> ByteAt(bits, w - i)]

EmbeddingRecord(ef, pair, precision) ==
    Concat([i \in DOMAIN pair.embedding |->
               FloatBytes(ef, pair.embedding[i], precision)])
    \o <<DASH>> \o Utf8Encode(pair.content)

EmbeddingRecords(ef, pairs, precision) ==
    [i \in DOMAIN pairs |-> EmbeddingRecord(ef, pairs[i], precision)]

write_embedding_section(b, ie, ef, pairs, padding, precision) ==
    IF ~ValidPadding(padding) \/ ~ValidPrecision(precision)
    THEN [raised |-> TRUE, buf |-> b, index_entries |-> ie]
    ELSE LET start == Len(b)
             meta == b \o u8(precision) \o u64(ef, 0) \o u64(ef, 0) \o u8(padding)
             data_start == Len(meta)
             body == meta \o Concat(PaddedRecords(
                                      EmbeddingRecords(ef, pairs, precision), padding))
             data_end == Len(body)
             patched == Patch(Patch(body, start + 1, u64(ef, data_start)),
                              start + 9, u64(ef, data_end))
         IN [raised |-> FALSE, buf |-> patched,
             index_entries |-> Append(ie, <<VECTOR, data_start, data_end>>)]

\* the buffer after write_index_strategy(); the same bytes go to the file
finalize(b, ie) == write_index_strategy(b, ie)

(***************************************************************************)
(* RAGFileReader                                                           *)
(***************************************************************************)
\* the non-empty pieces of block.split(b"\x00"), in order; the empty pieces
\* are dropped by "if not entry" (line 229) and by 'b"-" not in rec' (line 269)
SplitNul(block) ==
    LET n == Len(block)
        starts == {i \in 1..n : block[i] # NUL /\ (i = 1 \/ block[i - 1] = NUL)}
        ends == {i \in 1..n : block[i] # NUL /\ (i = n \/ block[i + 1] = NUL)}
        ss == SortedSeq(starts)
        es == SortedSeq(ends)
    IN [k \in 1..Len(ss) |-> SubSeq(block, ss[k], es[k])]

EmptyIndex == <<>>

\* the "except Exception: continue" of parse_index
NoEntry == [ok |-> FALSE, name |-> <<>>, range |-> <<0, 0>>]

\* int(start_str), int(end_str) of decimal digits
EntryOf(name, start_str, end_str) ==
    IF IsDigits(start_str) /\ IsDigits(end_str)
    THEN [ok |-> TRUE, name |-> name,
          range |-> <<DigitsValue(start_str), DigitsValue(end_str)>>]
    ELSE NoEntry

\* start_str, end_str = inner.split(","), inner being rest[:-1]
SplitRange(name, inner, commas) ==
    IF Cardinality(commas) # 1 THEN NoEntry
    ELSE EntryOf(name, SubSeq(inner, 1, Min(commas) - 1),
                 SubSeq(inner, Min(commas) + 1, Len(inner)))

RangeOf(name, inner) ==
    SplitRange(name, inner, {j \in 1..Len(inner) : inner[j] = 44})

\* name, rest = s.split("-(")
SplitName(s, seps) ==
    IF Cardinality(seps) # 1 THEN NoEntry
    ELSE RangeOf(SubSeq(s, 1, Min(seps) - 1),
                 SubSeq(s, Min(seps) + 2, Len(s) - 1))

ParseDecoded(d) ==
    IF ~d.ok THEN NoEntry
    ELSE SplitName(d.str,
                   {i \in 1..(Len(d.str) - 1) : d.str[i] = DASH /\ d.str[i + 1] = 40})

\* one entry of the index table
ParseEntry(entry) == ParseDecoded(Utf8Decode(entry))

\* self._index[name] = (int(start_str), int(end_str))
Assign(idx, e) ==
    IF e.ok
    THEN [n \in DOMAIN idx \cup {e.name} |-> IF n = e.name THEN e.range ELSE idx[n]]
    ELSE idx

RECURSIVE IndexOf(_, _)
\* the dict built from the entries in order
IndexOf(entries, idx) ==
    IF entries = <<>> THEN idx
    ELSE IndexOf(Tail(entries), Assign(idx, ParseEntry(Head(entries))))

FirstNul(f, zs) == IF zs = {} THEN Len(f) + 1 ELSE Min(zs)

\* the bytes read one at a time from _header_end up to the first 0x00 or EOF
IndexBytes(f) ==
    SubSeq(f, ReaderHeaderEnd + 1,
           FirstNul(f, {j \in (ReaderHeaderEnd + 1)..Len(f) : f[j] = NUL}) - 1)

parse_index(f) == IndexOf(SplitNul(IndexBytes(f)), EmptyIndex)

BlockEnd(f, pos, w) == IF pos + w < Len(f) THEN pos + w ELSE Len(f)

RECURSIVE ScanWindows(_, _, _, _)
\* the half-open ranges <<pos, pos + len(block)>> of the blocks read
ScanWindows(f, pos, end, w) ==
    IF pos >= end \/ BlockEnd(f, pos, w) <= pos THEN <<>>
    ELSE <<<<pos, BlockEnd(f, pos, w)>>>> \o ScanWindows(f, BlockEnd(f, pos, w), end, w)

HasDash(rec) == \E i \in DOMAIN rec : rec[i] = DASH

FirstDash(rec) == Min({j \in DOMAIN rec : rec[j] = DASH})

\* k, v = rec.split(b"-", 1)
KeyOf(rec) == SubSeq(rec, 1, FirstDash(rec) - 1)

ValueOf(rec) == SubSeq(rec, FirstDash(rec) + 1, Len(rec))

\* a record of a block: "skip", "match", or "raise" (UnicodeDecodeError)
RecStatus(rec, keyword) ==
    IF ~HasDash(rec) THEN "skip"
    ELSE IF ~Utf8Decode(KeyOf(rec)).ok THEN "raise"
    ELSE IF Utf8Decode(KeyOf(rec)).str # keyword THEN "skip"
    ELSE IF ~Utf8Decode(ValueOf(rec)).ok THEN "raise"
    ELSE "match"

RecResult(rec) ==
    [keyword |-> Utf8Decode(KeyOf(rec)).str, content |-> Utf8Decode(ValueOf(rec)).str]

\* the records of the blocks read, in the order the loops visit them
BlockRecords(f, wins) ==
    Concat([i \in DOMAIN wins |-> SplitNul(SubSeq(f, wins[i][1] + 1, wins[i][2]))])

Matches(recs, keyword) == SelectSeq(recs, LAMBDA r : RecStatus(r, keyword) = "match")

ResultsOf(hits) == [i \in DOMAIN hits |-> RecResult(hits[i])]

Collect(index, wins, recs, keyword) ==
    [index |-> index,
     raised |-> \E i \in DOMAIN recs : RecStatus(recs[i], keyword) = "raise",
     results |-> ResultsOf(Matches(recs, keyword)),
     windows |-> wins]

Scan(f, index, wins, keyword) == Collect(index, wins, BlockRecords(f, wins), keyword)

SearchIn(f, index, keyword, padding) ==
    IF KEYWORD \notin DOMAIN index
    THEN [index |-> index, raised |-> FALSE, results |-> <<>>, windows |-> <<>>]
    ELSE Scan(f, index,
              ScanWindows(f, index[KEYWORD][1], index[KEYWORD][2],
                          padding * WindowRecords),
              keyword)

\* search_keyword on file f with the cached index idx
search_keyword(f, idx, keyword, padding) ==
    SearchIn(f, IF idx = EmptyIndex THEN parse_index(f) ELSE idx, keyword, padding)

(***************************************************************************)
(* State                                                                   *)
(***************************************************************************)
VARIABLES
    endian_flag,            \* RAGFileWriter.endian_flag
    buf,                    \* RAGFileWriter.buf
    index_entries,          \* RAGFileWriter.index_entries
    file,                   \* the bytes at filepath; <<>> while not written
    reader_index,           \* RAGFileReader._index
    found,                  \* the outcome of the last search_keyword call
    calls,                  \* history: <<name, raised>> of every writer call
    last,                   \* history: buf and index_entries before the last call
    sections,               \* history: what each section-writing call produced
    pc,                     \* keyword_bench.main: the statement reached
    args,                   \* keyword_bench.main: the parsed arguments
    keyword_content_pairs,  \* keyword_bench.main
    search_kw,              \* keyword_bench.main
    py_found                \* keyword_bench.main

vars == <<endian_flag, buf, index_entries, file, reader_index, found, calls,
          last, sections, pc, args, keyword_content_pairs, search_kw, py_found>>

writer_vars == <<endian_flag, buf, index_entries, file, calls, last, sections>>

bench_vars == <<pc, args, keyword_content_pairs, search_kw, py_found>>

NoSearch == [called |-> FALSE, raised |-> FALSE, results |-> <<>>,
             windows |-> <<>>, keyword |-> <<>>]

(***************************************************************************)
(* Inputs                                                                  *)
(***************************************************************************)
Pair(k, c) == [keyword |-> k, content |-> c]

\* ("ab", "x") and ("cd", "e-y") with e acute, U+00E9
KeywordPool ==
    {Pair(<<97, 98>>, <<120>>), Pair(<<99, 100>>, <<233, 45, 121>>)}

\* ([1.0, 2.0, 3.0], "c")
EmbeddingPool == {[embedding |-> <<1, 2, 3>>, content |-> <<99>>]}

SeqsUpTo(S, n) == UNION {[1..k -> S] : k \in 0..n}

PaddingArgs == {2, 4, 8, 16}

PrecisionArgs == {16, 32, 64}

Queries == {<<97, 98>>, <<122, 122>>}

(***************************************************************************)
(* The writer and the reader called in any order                           *)
(***************************************************************************)
Init ==
    /\ endian_flag \in {0, 1}
    /\ buf = <<>>
    /\ index_entries = <<>>
    /\ file = <<>>
    /\ reader_index = EmptyIndex
    /\ found = NoSearch
    /\ calls = <<>>
    /\ last = [buf |-> <<>>, index_entries |-> <<>>]
    /\ sections = <<>>
    /\ pc = "api"
    /\ args = [num_keywords |-> 0, str_length |-> 0, content_length |-> 0,
               padding |-> 0]
    /\ keyword_content_pairs = <<>>
    /\ search_kw = <<>>
    /\ py_found = <<>>

\* an AssertionError is not caught by the callers: it ends the run
Raised == calls # <<>> /\ calls[Len(calls)][2]

\* the writer is used before any reader opens the file
WriterTurn ==
    /\ Len(calls) < MaxCalls
    /\ ~Raised
    /\ reader_index = EmptyIndex
    /\ ~found.called

Called(name, raised) ==
    /\ calls' = Append(calls, <<name, raised>>)
    /\ last' = [buf |-> buf, index_entries |-> index_entries]

\* what a section-writing call that returned res appended to the buffer
Produced(name, res, bodies, padding, pairs) ==
    LET e == res.index_entries[Len(res.index_entries)]
    IN [name |-> name, start |-> Len(buf), data_start |-> e[2], data_end |-> e[3],
        padding |-> padding, pairs |-> pairs, bodies |-> bodies,
        recs |-> PaddedRecords(bodies, padding),
        meta |-> SubSeq(res.buf, Len(buf) + 1, e[2]),
        data |-> SubSeq(res.buf, e[2] + 1, e[3])]

WriteHeader ==
    /\ WriterTurn
    /\ buf' = write_header(buf, endian_flag, 0, 1, 0)
    /\ Called("write_header", FALSE)
    /\ UNCHANGED <<endian_flag, index_entries, file, sections, reader_index, found>>
    /\ UNCHANGED bench_vars

WriteKeywordSection ==
    /\ WriterTurn
    /\ Len(sections) < MaxSections
    /\ \E pairs \in SeqsUpTo(KeywordPool, MaxPairs), padding \in PaddingArgs :
          \E res \in {write_keyword_section(buf, index_entries, endian_flag,
                                            pairs, padding)} :
             /\ buf' = res.buf
             /\ index_entries' = res.index_entries
             /\ sections' = IF res.raised THEN sections
                            ELSE Append(sections,
                                        Produced(KEYWORD, res, KeywordRecords(pairs),
                                                 padding, pairs))
             /\ Called("write_keyword_section", res.raised)
    /\ UNCHANGED <<endian_flag, file, reader_index, found>>
    /\ UNCHANGED bench_vars

WriteEmbeddingSection ==
    /\ WriterTurn
    /\ Len(sections) < MaxSections
    /\ \E pairs \in SeqsUpTo(EmbeddingPool, MaxEmbPairs), padding \in PaddingArgs,
          precision \in PrecisionArgs :
          \E res \in {write_embedding_section(buf, index_entries, endian_flag,
                                              pairs, padding, precision)} :
             /\ buf' = res.buf
             /\ index_entries' = res.index_entries
             /\ sections' = IF res.raised THEN sections
                            ELSE Append(sections,
                                        Produced(VECTOR, res,
                                                 EmbeddingRecords(endian_flag, pairs,
                                                                  precision),
                                                 padding, pairs))
             /\ Called("write_embedding_section", res.raised)
    /\ UNCHANGED <<endian_flag, file, reader_index, found>>
    /\ UNCHANGED bench_vars

Finalize ==
    /\ WriterTurn
    /\ buf' = finalize(buf, index_entries)
    /\ file' = buf'
    /\ Called("finalize", FALSE)
    /\ UNCHANGED <<endian_flag, index_entries, sections, reader_index, found>>
    /\ UNCHANGED bench_vars

FileExists == file # <<>>

\* a reader opens the file the writer has just written
ReaderTurn == FileExists /\ calls[Len(calls)][1] = "finalize"

ParseIndex ==
    /\ ReaderTurn
    /\ reader_index' = parse_index(file)
    /\ UNCHANGED <<found>>
    /\ UNCHANGED writer_vars
    /\ UNCHANGED bench_vars

SearchKeyword ==
    /\ ReaderTurn
    /\ \E keyword \in Queries, padding \in {4, 8, 16} :
          \E res \in {search_keyword(file, reader_index, keyword, padding)} :
             /\ reader_index' = res.index
             /\ found' = [called |-> TRUE, raised |-> res.raised,
                          results |-> IF res.raised THEN <<>> ELSE res.results,
                          windows |-> res.windows, keyword |-> keyword]
    /\ UNCHANGED writer_vars
    /\ UNCHANGED bench_vars

Next ==
    \/ WriteHeader
    \/ WriteKeywordSection
    \/ WriteEmbeddingSection
    \/ Finalize
    \/ ParseIndex
    \/ SearchKeyword

Spec == Init /\ [][Next]_vars

\* the writer alone, for fewer calls
FewCalls == Len(calls) < MaxWriterCalls

FewWriteHeader == FewCalls /\ WriteHeader

FewWriteKeywordSection == FewCalls /\ WriteKeywordSection

FewWriteEmbeddingSection == FewCalls /\ WriteEmbeddingSection

FewFinalize == FewCalls /\ Finalize

WriterNext ==
    \/ FewWriteHeader
    \/ FewWriteKeywordSection
    \/ FewWriteEmbeddingSection
    \/ FewFinalize

WriterSpec == Init /\ [][WriterNext]_vars

(***************************************************************************)
(* keyword_bench.main                                                      *)
(***************************************************************************)
\* two of string.ascii_letters + string.digits: "a", "b"
Alphabet == {97, 98}

\* the values random_string(length) is drawn from
RandomStrings(length) ==
    IF length <= MaxStrLength
    THEN [1..length -> Alphabet]
    ELSE {[i \in 1..length |-> c] : c \in Alphabet}

BenchArgs ==
    [num_keywords : 0..MaxNumKeywords, str_length : 1..MaxStrLength,
     content_length : {1, LongContent}, padding : {4, 8, 16}]

BenchInit ==
    /\ endian_flag \in {0, 1}
    /\ buf = <<>>
    /\ index_entries = <<>>
    /\ file = <<>>
    /\ reader_index = EmptyIndex
    /\ found = NoSearch
    /\ calls = <<>>
    /\ last = [buf |-> <<>>, index_entries |-> <<>>]
    /\ sections = <<>>
    /\ pc = "generate"
    /\ args \in BenchArgs
    /\ keyword_content_pairs = <<>>
    /\ search_kw = <<>>
    /\ py_found = <<>>

\* lines 27-34; random.choice of an empty list raises IndexError
Generate ==
    /\ pc = "generate"
    /\ \E pairs \in [1..args.num_keywords ->
                        {Pair(k, c) : k \in RandomStrings(args.str_length),
                                      c \in RandomStrings(args.content_length)}] :
          /\ keyword_content_pairs' = pairs
          /\ IF pairs = <<>>
             THEN pc' = "IndexError" /\ search_kw' = search_kw
             ELSE /\ pc' = "py_search"
                  /\ \E i \in DOMAIN pairs : search_kw' = pairs[i].keyword
    /\ UNCHANGED <<args, py_found, reader_index, found>>
    /\ UNCHANGED writer_vars

\* [p for p in keyword_content_pairs if p["keyword"] == search_kw]
EqualityFilter(pairs, kw) == SelectSeq(pairs, LAMBDA p : p.keyword = kw)

PySearch ==
    /\ pc = "py_search"
    /\ py_found' = EqualityFilter(keyword_content_pairs, search_kw)
    /\ pc' = "write_header"
    /\ UNCHANGED <<args, keyword_content_pairs, search_kw, reader_index, found>>
    /\ UNCHANGED writer_vars

BenchWriteHeader ==
    /\ pc = "write_header"
    /\ buf' = write_header(buf, endian_flag, 0, 1, 0)
    /\ Called("write_header", FALSE)
    /\ pc' = "write_keyword_section"
    /\ UNCHANGED <<endian_flag, index_entries, file, sections, reader_index, found>>
    /\ UNCHANGED <<args, keyword_content_pairs, search_kw, py_found>>

BenchWrite(res) ==
    /\ buf' = res.buf
    /\ index_entries' = res.index_entries
    /\ sections' = Append(sections,
                          Produced(KEYWORD, res, KeywordRecords(keyword_content_pairs),
                                   args.padding, keyword_content_pairs))

BenchWriteKeywordSection ==
    /\ pc = "write_keyword_section"
    /\ \E res \in {write_keyword_section(buf, index_entries, endian_flag,
                                         keyword_content_pairs, args.padding)} :
          BenchWrite(res)
    /\ Called("write_keyword_section", FALSE)
    /\ pc' = "finalize"
    /\ UNCHANGED <<endian_flag, file, reader_index, found>>
    /\ UNCHANGED <<args, keyword_content_pairs, search_kw, py_found>>

BenchFinalize ==
    /\ pc = "finalize"
    /\ buf' = finalize(buf, index_entries)
    /\ file' = buf'
    /\ Called("finalize", FALSE)
    /\ pc' = "search"
    /\ UNCHANGED <<endian_flag, index_entries, sections, reader_index, found>>
    /\ UNCHANGED <<args, keyword_content_pairs, search_kw, py_found>>

BenchFound(res) ==
    /\ reader_index' = res.index
    /\ found' = [called |-> TRUE, raised |-> res.raised,
                 results |-> IF res.raised THEN <<>> ELSE res.results,
                 windows |-> res.windows, keyword |-> search_kw]

\* rag_found = reader.search_keyword(search_kw, padding=args.padding)
BenchSearch ==
    /\ pc = "search"
    /\ \E res \in {search_keyword(file, reader_index, search_kw, args.padding)} :
          BenchFound(res)
    /\ pc' = IF found'.raised THEN "UnicodeDecodeError" ELSE "check"
    /\ UNCHANGED <<args, keyword_content_pairs, search_kw, py_found>>
    /\ UNCHANGED writer_vars

\* lines 64-65
BenchCheck ==
    /\ pc = "check"
    /\ pc' = IF /\ py_found # <<>>
                /\ found.results # <<>>
                /\ py_found[1].content # found.results[1].content
             THEN "AssertionError"
             ELSE "done"
    /\ UNCHANGED <<args, keyword_content_pairs, search_kw, py_found, reader_index,
                   found>>
    /\ UNCHANGED writer_vars

BenchNext ==
    \/ Generate
    \/ PySearch
    \/ BenchWriteHeader
    \/ BenchWriteKeywordSection
    \/ BenchFinalize
    \/ BenchSearch
    \/ BenchCheck

BenchSpec == BenchInit /\ [][BenchNext]_vars

(***************************************************************************)
(* Properties                                                              *)
(***************************************************************************)
IsSectionCall(name) == name \in {"write_keyword_section", "write_embedding_section"}

\* the documented use of the writer has just been completed: write_header,
\* then section-writing calls, then finalize, none of them failing
Documented ==
    /\ Len(calls) >= 2
    /\ calls[1] = <<"write_header", FALSE>>
    /\ calls[Len(calls)] = <<"finalize", FALSE>>
    /\ \A i \in 2..(Len(calls) - 1) : IsSectionCall(calls[i][1]) /\ ~calls[i][2]

DistinctNames ==
    \A i, j \in DOMAIN index_entries :
        index_entries[i][1] = index_entries[j][1] => i = j

\* padded record rec of body body under alignment a
WellPadded(rec, body, a) ==
    /\ Len(rec) % a = 0
    /\ Len(rec) >= Len(body)
    /\ SubSeq(rec, 1, Len(body)) = body
    /\ \A k \in (Len(body) + 1)..Len(rec) : rec[k] = NUL
    /\ Len(rec) - Len(body) <= a - 1
    /\ (Len(body) % a = 0 => Len(rec) = Len(body))

RECURSIVE TotalLen(_, _)
\* the length of the first n records of recs together
TotalLen(recs, n) == IF n = 0 THEN 0 ELSE TotalLen(recs, n - 1) + Len(recs[n])

\* the half-open byte range of record i of section s in the file
RecordRange(s, i) ==
    <<s.data_start + TotalLen(s.recs, i - 1), s.data_start + TotalLen(s.recs, i)>>

\* the state of the documented writer state machine after the calls cs, a call
\* the state machine does not allow leaving the state as it is
RECURSIVE WriterState(_)
WriterState(cs) ==
    IF cs = <<>> THEN "Empty"
    ELSE LET before == WriterState(SubSeq(cs, 1, Len(cs) - 1))
             name == cs[Len(cs)][1]
             raised == cs[Len(cs)][2]
         IN IF raised THEN before
            ELSE IF name = "write_header"
                 THEN (IF before = "Empty" THEN "HeaderWritten" ELSE before)
            ELSE IF IsSectionCall(name)
                 THEN (IF before \in {"HeaderWritten", "SectionsWritten"}
                       THEN "SectionsWritten" ELSE before)
            ELSE (IF before \in {"HeaderWritten", "SectionsWritten"}
                  THEN "Finalized" ELSE before)

\* whether the state machine allows the call name in state st
Allowed(st, name) ==
    IF name = "write_header" THEN st = "Empty"
    ELSE st \in {"HeaderWritten", "SectionsWritten"}

\* the pairs decoded from the bytes [start, end) of f: split on 0x00, then
\* each record on its first "-"
DecodedPairs(f, start, end) ==
    {RecResult(r) : r \in {x \in Range(SplitNul(SubSeq(f, start + 1, end))) : HasDash(x)}}

\* C1: after write_header, write_keyword_section(pairs, alignment) and
\* finalize, search_keyword(q, alignment) returns exactly the pairs of the
\* input list whose keyword equals q, as the in-memory equality filter does.
C1_SearchMatchesFilter ==
    found.called => (~found.raised /\ found.results = py_found)

\* C2: finalize leaves every section's metadata block and data region
\* [data_start, data_end) as the section-writing call produced them.
C2_FinalizeKeepsSections ==
    Documented =>
        \A i \in DOMAIN sections :
            /\ SubSeq(file, sections[i].start + 1, sections[i].data_start)
                   = sections[i].meta
            /\ SubSeq(file, sections[i].data_start + 1, sections[i].data_end)
                   = sections[i].data

\* C3: every index entry satisfies 0 <= start <= end <= file_size and the
\* bytes [start, end) of the file are the padded records of its section.
C3_OffsetInvariant ==
    Documented =>
        \A i \in DOMAIN index_entries :
            /\ 0 <= index_entries[i][2]
            /\ index_entries[i][2] <= index_entries[i][3]
            /\ index_entries[i][3] <= Len(file)
            /\ SubSeq(file, index_entries[i][2] + 1, index_entries[i][3])
                   = Concat(sections[i].recs)

\* C4: decoding the whole keyword section of the written file yields exactly
\* the set of pairs that was written.
C4_RoundTrip ==
    (FileExists /\ Len(index_entries) = 1) =>
        DecodedPairs(file, index_entries[1][2], index_entries[1][3])
            = Range(keyword_content_pairs)

\* C5: after finalize, parse_index maps the name of every registered section
\* to the (start, end) its section-writing call registered.
C5_ParseIndexAllSections ==
    (Documented /\ DistinctNames /\ reader_index # EmptyIndex) =>
        \A i \in DOMAIN index_entries :
            /\ index_entries[i][1] \in DOMAIN reader_index
            /\ reader_index[index_entries[i][1]]
                   = <<index_entries[i][2], index_entries[i][3]>>

\* C6: every record a section-writing call appends is its body followed by
\* 0x00 bytes up to the next multiple of the alignment, at most alignment - 1
\* of them and none when the body length is a multiple already.
C6_PaddingInvariant ==
    \A i \in DOMAIN sections :
        /\ sections[i].data = Concat(sections[i].recs)
        /\ \A j \in DOMAIN sections[i].recs :
               WellPadded(sections[i].recs[j], sections[i].bodies[j],
                          sections[i].padding)

\* a keyword record that needs no padding and an embedding record that does
C6_Witness ==
    /\ Len(sections) = 2
    /\ sections[1].name = KEYWORD
    /\ Len(sections[1].recs) = 1
    /\ Len(sections[1].recs[1]) = Len(sections[1].bodies[1])
    /\ sections[2].name = VECTOR
    /\ Len(sections[2].recs) = 1
    /\ Len(sections[2].recs[1]) > Len(sections[2].bodies[1])

\* C7: a section-writing call with an alignment or precision that is not
\* accepted fails with the buffer and the index entries as they were before.
C7_InvalidArgumentWritesNothing ==
    Raised => (buf = last.buf /\ index_entries = last.index_entries)

\* a failed call on a writer that holds a section
C7_Witness ==
    /\ Raised
    /\ index_entries # <<>>
    /\ buf # <<>>

\* C8: a call the state machine Empty -> HeaderWritten -> SectionsWritten ->
\* Finalized does not allow is not performed.
C8_OutOfOrderNotPerformed ==
    (/\ calls # <<>>
     /\ ~Allowed(WriterState(SubSeq(calls, 1, Len(calls) - 1)), calls[Len(calls)][1]))
        => (buf = last.buf /\ index_entries = last.index_entries)

\* C9: when several records carry the searched keyword with different
\* contents, search_keyword returns all of them in the order written.
C9_DuplicatesInWriteOrder ==
    (/\ found.called
     /\ Len(py_found) >= 2
     /\ \A i, j \in DOMAIN py_found :
            py_found[i].content = py_found[j].content => i = j)
        => found.results = py_found

\* C10: when no padded record is longer than the scan window, every window
\* read begins at a record boundary and every record lies inside one window.
C10_WindowKeepsRecords ==
    (/\ found.called
     /\ Len(sections) = 1
     /\ \A j \in DOMAIN sections[1].recs :
            Len(sections[1].recs[j]) <= args.padding * WindowRecords)
        => /\ \A w \in DOMAIN found.windows :
                  \E j \in DOMAIN sections[1].recs :
                      RecordRange(sections[1], j)[1] = found.windows[w][1]
           /\ \A j \in DOMAIN sections[1].recs :
                  \E w \in DOMAIN found.windows :
                      /\ found.windows[w][1] <= RecordRange(sections[1], j)[1]
                      /\ RecordRange(sections[1], j)[2] <= found.windows[w][2]

====
